---- MODULE Spec2Model ----
(***************************************************************************)
(* A model of src/model_utils.py: the request-dispatch-and-cache layer.    *)
(*                                                                         *)
(* Python values are modelled structurally:                                *)
(*   - a str is a sequence of atoms (TLA+ strings), so that += and         *)
(*     startswith / in (substring) are sequence operations;                *)
(*   - a dict is a sequence of <<key, value>> pairs in insertion order,    *)
(*     which is the order json.dumps writes;                               *)
(*   - a JSON value held by the cache is a record; a plain str value v     *)
(*     is the record [str |-> v];                                          *)
(*   - a prompt is a sequence of messages, and batch_prompts holds the     *)
(*     caller's prompt objects: a mutation in place is an update of        *)
(*     batch_prompts[i], and new_batch_prompts holds references (indices). *)
(***************************************************************************)
EXTENDS Integers, Sequences, FiniteSets, TLC

\* ------------------------------------------------------------------ bounds

\* The longest batch a caller passes to cached_generate.
MaxBatch == 2

\* The number of cached_generate calls in one behaviour.
MaxCalls == 2

\* The most consecutive failures of a network endpoint that recovers.
MaxTransient == 1

\* The most prompts of one call whose endpoint fails at all.
MaxFaulty == 1

\* The longest list of turns handed to process_gemma_messages on its own.
MaxTurns == 4

\* ---------------------------------------------------------- program constants

\* stop_after_attempt(10) on openai_request
OPENAI_ATTEMPTS == 10

\* stop_after_attempt(10) on claude_request
CLAUDE_ATTEMPTS == 10

\* stop_after_attempt(10) on model_call_wrapper
WRAPPER_ATTEMPTS == 10

\* ------------------------------------------------------------- str and dict

Str(s) == <<s>>

\* model names, as Python strs
GPT_4O == <<"g", "p", "t", "-", "4", "o">>
O1_PREVIEW == <<"o", "1", "-", "p", "r", "e", "v", "i", "e", "w">>
O1 == <<"o", "1">>
O1_MINI == <<"o", "1", "-", "m", "i", "n", "i">>
GEMINI_PRO == <<"G", "e", "m", "i", "n", "i", "-", "p", "r", "o">>
GEMMA_2 == <<"g", "e", "m", "m", "a", "-", "2">>
CLAUDE_35 ==
  <<"c", "l", "a", "u", "d", "e", "-", "3", "-", "5", "-", "s", "o", "n", "n",
    "e", "t", "-", "2", "0", "2", "4", "1", "0", "2", "2">>
LLAMA_3 == <<"l", "l", "a", "m", "a", "-", "3">>

\* GPT_COSTS, in units of 1/1000000 per token
GPT_COSTS ==
  (GPT_4O :> [prompt_tokens |-> 5, completion_tokens |-> 15])
  @@ (O1_PREVIEW :> [prompt_tokens |-> 15, completion_tokens |-> 60])
  @@ (O1 :> [prompt_tokens |-> 15, completion_tokens |-> 60])

\* the token types of a price table, in the order the dict is iterated
TokenTypes == <<"prompt_tokens", "completion_tokens">>

CLAUDE_MODELS == {CLAUDE_35}

\* str.startswith
StartsWith(s, prefix) ==
  /\ Len(s) >= Len(prefix)
  /\ SubSeq(s, 1, Len(prefix)) = prefix

\* the `in` operator on two strs: substring
Contains(s, sub) ==
  \E i \in 1..(Len(s) - Len(sub) + 1) : SubSeq(s, i, i + Len(sub) - 1) = sub

LowerChar(c) ==
  CASE c = "G" -> "g"
    [] c = "M" -> "m"
    [] c = "C" -> "c"
    [] c = "O" -> "o"
    [] OTHER -> c

\* str.lower
Lower(s) == [i \in 1..Len(s) |-> LowerChar(s[i])]

\* `key in d` for a dict d
HasKey(d, k) == \E i \in 1..Len(d) : d[i][1] = k

\* d[key]
Get(d, k) == d[CHOOSE i \in 1..Len(d) : d[i][1] = k][2]

\* d[key] = value: in place when the key exists, appended otherwise
Set(d, k, v) ==
  IF HasKey(d, k)
  THEN [i \in 1..Len(d) |-> IF d[i][1] = k THEN <<k, v>> ELSE d[i]]
  ELSE Append(d, <<k, v>>)

\* del d[key]
Del(d, k) == SelectSeq(d, LAMBDA kv : kv[1] # k)

\* {"role": role, "content": content}
Message(role, content) == <<(<<"role", role>>), (<<"content", content>>)>>

\* ------------------------------------------------------------ serialization

RECURSIVE Join(_)
\* the concatenation of a sequence of sequences
Join(ss) == IF ss = <<>> THEN <<>> ELSE Head(ss) \o Join(Tail(ss))

\* json.dumps of one piece of a str: a quote, a backslash, a newline is escaped
EscapeAtom(c) ==
  CASE c = "\"" -> "\\\""
    [] c = "\n" -> "\\n"
    [] c = "\n\n" -> "\\n\\n"
    [] c = "\\n" -> "\\\\n"
    [] c = "\\n\\n" -> "\\\\n\\\\n"
    [] OTHER -> c

\* json.loads of one piece of a str
UnescapeAtom(c) ==
  CASE c = "\\\"" -> "\""
    [] c = "\\n" -> "\n"
    [] c = "\\n\\n" -> "\n\n"
    [] c = "\\\\n" -> "\\n"
    [] c = "\\\\n\\\\n" -> "\\n\\n"
    [] OTHER -> c

Escape(s) == [i \in 1..Len(s) |-> EscapeAtom(s[i])]

Unescape(s) == [i \in 1..Len(s) |-> UnescapeAtom(s[i])]

\* json.dumps of a str
DumpsStr(s) == <<"\"">> \o Escape(s) \o <<"\"">>

\* json.dumps of a message: its pairs in insertion order
DumpsMessage(m) ==
  <<"{">>
  \o Join([i \in 1..Len(m) |->
        (IF i = 1 THEN <<>> ELSE <<", ">>)
        \o DumpsStr(<<m[i][1]>>) \o <<": ">> \o DumpsStr(m[i][2])])
  \o <<"}">>

\* jsonify_prompt: json.dumps of a list of messages
jsonify_prompt(prompt) ==
  <<"[">>
  \o Join([i \in 1..Len(prompt) |->
        (IF i = 1 THEN <<>> ELSE <<", ">>) \o DumpsMessage(prompt[i])])
  \o <<"]">>

\* a dict with no key
EmptyDict == [k \in {} |-> k]

\* json.dumps on the strs of a cached value: a str, or a provider's response
DumpsValue(v) ==
  IF DOMAIN v = {"str"} THEN [str |-> Escape(v.str)]
  ELSE IF "choices" \in DOMAIN v
  THEN [v EXCEPT !.choices =
          [n \in 1..Len(v.choices) |->
             [message |->
                [content |-> [str |-> Escape(v.choices[n].message.content.str)]]]]]
  ELSE IF "content" \in DOMAIN v
  THEN [v EXCEPT !.content =
          [n \in 1..Len(v.content) |->
             [text |-> [str |-> Escape(v.content[n].text.str)]]]]
  ELSE v

\* json.loads on the strs of a value read from a line
LoadsValue(v) ==
  IF DOMAIN v = {"str"} THEN [str |-> Unescape(v.str)]
  ELSE IF "choices" \in DOMAIN v
  THEN [v EXCEPT !.choices =
          [n \in 1..Len(v.choices) |->
             [message |->
                [content |-> [str |-> Unescape(v.choices[n].message.content.str)]]]]]
  ELSE IF "content" \in DOMAIN v
  THEN [v EXCEPT !.content =
          [n \in 1..Len(v.content) |->
             [text |-> [str |-> Unescape(v.content[n].text.str)]]]]
  ELSE v

\* json.dumps({"prompt": ..., "completion": ...}) + "\n": one line of the file
DumpsLine(jsonified_prompt, completion) ==
  [text |-> <<(<<"prompt", [str |-> Escape(jsonified_prompt)]>>),
              (<<"completion", DumpsValue(completion)>>)>>,
   end |-> "\n"]

\* json.loads of a line: the object written before the line end
LoadsLine(line) ==
  [i \in 1..Len(line.text) |->
     <<line.text[i][1], LoadsValue(line.text[i][2])>>]

\* cache[key] = value on the in-memory dict
Store(cache_, k, v) == (k :> v) @@ [x \in DOMAIN cache_ \ {k} |-> cache_[x]]

RECURSIVE LoadLinesFirstWins(_, _)
\* a replay where a line whose key is already there is skipped
LoadLinesFirstWins(lines, cache_) ==
  IF lines = <<>> THEN cache_
  ELSE LET line == LoadsLine(Head(lines))
           k == Get(line, "prompt").str
       IN LoadLinesFirstWins(Tail(lines),
                             IF k \in DOMAIN cache_ THEN cache_
                             ELSE Store(cache_, k, Get(line, "completion")))

RECURSIVE LoadLines(_, _)
\* the loop of load_cache_file: a later line replaces an earlier one
LoadLines(lines, cache_) ==
  IF lines = <<>> THEN cache_
  ELSE LET line == LoadsLine(Head(lines))
       IN LoadLines(Tail(lines),
                    Store(cache_, Get(line, "prompt").str, Get(line, "completion")))

\* load_cache_file: replays the file into a fresh dict
load_cache_file(file) == LoadLines(file, EmptyDict)

\* ------------------------------------------------------ prompt preprocessing

\* cached_generate, o1 models: every system turn becomes a user turn, in place
RewriteSystemTurns(prompt) ==
  [t \in 1..Len(prompt) |->
     IF Get(prompt[t], "role") = Str("system")
     THEN Set(prompt[t], "role", Str("user"))
     ELSE prompt[t]]

\* the Gemini adapter's loop over the messages, in place
GeminiMessage(message) ==
  LET m1 == IF Get(message, "role") = Str("system")
            THEN Set(message, "role", Str("user"))
            ELSE message
  IN IF HasKey(m1, "content")
     THEN Del(Set(m1, "parts", Get(m1, "content")), "content")
     ELSE m1

GeminiMessages(messages) ==
  [t \in 1..Len(messages) |-> GeminiMessage(messages[t])]

\* the Claude adapter's loop over the messages, in place
ClaudeMessages(messages) == RewriteSystemTurns(messages)

RECURSIVE GemmaCombineNoMerge(_, _, _, _, _)
\* a first loop that converts system turns and appends every turn
GemmaCombineNoMerge(messages, i, processed, last_role, none_yet) ==
  IF i > Len(messages) THEN [messages |-> messages, processed |-> processed]
  ELSE
    LET is_system == Get(messages[i], "role") = Str("system")
        message == IF is_system
                   THEN Message(Str("user"), Get(messages[i], "content"))
                   ELSE messages[i]
    IN GemmaCombineNoMerge(messages, i + 1,
                           Append(processed, [val |-> message, ref |-> 0]),
                           last_role, FALSE)

RECURSIVE GemmaCombine(_, _, _, _, _)
(* The first loop of process_gemma_messages from turn i on. `messages` is the
   caller's list, whose dicts the loop may change; `processed` holds, per entry,
   the dict (val) and the index of the caller's dict it is (ref), or 0 for a
   dict the loop created. Returns the caller's list and processed_messages. *)
GemmaCombine(messages, i, processed, last_role, none_yet) ==
  IF i > Len(messages) THEN [messages |-> messages, processed |-> processed]
  ELSE
    LET is_system == Get(messages[i], "role") = Str("system")
        current_role == IF is_system THEN Str("user") ELSE Get(messages[i], "role")
        message == IF is_system
                   THEN Message(Str("user"), Get(messages[i], "content"))
                   ELSE messages[i]
        ref == IF is_system THEN 0 ELSE i
        n == Len(processed)
    IN IF ~none_yet /\ current_role = last_role
       THEN LET merged == Set(processed[n].val, "content",
                              Get(processed[n].val, "content")
                              \o <<"\n\n">> \o Get(message, "content"))
                r == processed[n].ref
            IN GemmaCombine(
                 IF r = 0 THEN messages ELSE [messages EXCEPT ![r] = merged],
                 i + 1,
                 [processed EXCEPT ![n] = [val |-> merged, ref |-> r]],
                 last_role, FALSE)
       ELSE GemmaCombine(messages, i + 1,
                         Append(processed, [val |-> message, ref |-> ref]),
                         current_role, FALSE)

RECURSIVE GemmaAlternate(_, _, _)
\* the second loop of process_gemma_messages from entry i on
GemmaAlternate(processed, i, final_messages) ==
  IF i > Len(processed) THEN final_messages
  ELSE
    LET message == processed[i]
        f1 == IF i = 1 /\ Get(message, "role") # Str("user")
              THEN Append(final_messages, Message(Str("user"), <<"Hello">>))
              ELSE final_messages
        f2 == IF i > 1 /\ Get(message, "role") = Get(f1[Len(f1)], "role")
              THEN IF Get(message, "role") = Str("user")
                   THEN Append(f1, Message(Str("assistant"), <<"I understand.">>))
                   ELSE Append(f1, Message(Str("user"), <<"Please continue.">>))
              ELSE f1
    IN GemmaAlternate(processed, i + 1, Append(f2, message))

\* process_gemma_messages: the list it returns, and the caller's list after it
process_gemma_messages(messages) ==
  LET c == GemmaCombine(messages, 1, <<>>, <<>>, TRUE)
      vals == [j \in 1..Len(c.processed) |-> c.processed[j].val]
  IN [final_messages |-> GemmaAlternate(vals, 1, <<>>),
      messages |-> c.messages]

\* ----------------------------------------------------------------- inputs

\* [{"role": "system", "content": "x"}, {"role": "user", "content": "y"}]
P_SYS == <<Message(Str("system"), <<"x">>), Message(Str("user"), <<"y">>)>>

\* [{"role": "user", "content": "x"}, {"role": "user", "content": "y"}]
P_USR == <<Message(Str("user"), <<"x">>), Message(Str("user"), <<"y">>)>>

Prompts == {P_SYS, P_USR}

Batches == UNION {[1..n -> Prompts] : n \in 0..MaxBatch}

ModelNames == {GPT_4O, O1, O1_MINI, GEMINI_PRO, GEMMA_2, CLAUDE_35, LLAMA_3}

\* model_url: a URL, or the empty str
ModelUrls == {<<"http://host/v1">>, <<>>}

(* How the endpoint behaves for one prompt of a call: it fails every request
   (always), or its first n requests. *)
NoFault == [always |-> FALSE, n |-> 0]

\* an endpoint that recovers after a failure or so
Transient == {[always |-> FALSE, n |-> k] : k \in 0..MaxTransient}

(* An endpoint that is down: for good, or for as long as one call of
   openai_request lasts. *)
Down == {[always |-> TRUE, n |-> 0], [always |-> FALSE, n |-> OPENAI_ATTEMPTS]}

\* --------------------------------------------------------- adapter selection

\* an if / elif chain that ends in an else with the OpenAI-compatible adapter
AdapterElseOpenai(name) ==
  IF name \in DOMAIN GPT_COSTS THEN "openai"
  ELSE IF Contains(Lower(name), <<"g", "e", "m", "i", "n", "i">>) THEN "gemini"
  ELSE IF Contains(Lower(name), <<"g", "e", "m", "m", "a">>) THEN "gemma"
  ELSE IF name \in CLAUDE_MODELS THEN "claude"
  ELSE "openai"

\* the if / elif chain of model_call_wrapper
Adapter(name) ==
  IF name \in DOMAIN GPT_COSTS THEN "openai"
  ELSE IF Contains(Lower(name), <<"g", "e", "m", "i", "n", "i">>) THEN "gemini"
  ELSE IF Contains(Lower(name), <<"g", "e", "m", "m", "a">>) THEN "gemma"
  ELSE IF name \in CLAUDE_MODELS THEN "claude"
  ELSE "none"

\* the attempts the adapter's request function is allowed by its @retry
RequestAttempts(adapter) ==
  CASE adapter = "openai" -> OPENAI_ATTEMPTS
    [] adapter = "claude" -> CLAUDE_ATTEMPTS
    [] OTHER -> 1

\* a request function without @retry: one attempt
RetryRequestOnce(fault, already, n, max) ==
  [ok |-> ~(fault.always \/ already + n <= fault.n), tries |-> n]

RECURSIVE RetryRequest(_, _, _, _)
(* A request function under stop_after_attempt(max), from its n-th attempt on,
   when the endpoint has already served `already` requests for this prompt:
   whether it returned, and the requests it made. *)
RetryRequest(fault, already, n, max) ==
  IF fault.always \/ already + n <= fault.n
  THEN IF n >= max THEN [ok |-> FALSE, tries |-> n]
       ELSE RetryRequest(fault, already, n + 1, max)
  ELSE [ok |-> TRUE, tries |-> n]

\* the generation_config the caller passes: its keys
GenerationConfig == {"temperature", "max_tokens"}

\* the keys of the request body `data` that get_response builds
DataKeys(adapter, config) ==
  CASE adapter \in {"openai", "claude"} -> {"model", "messages"} \cup config
    [] adapter = "gemma" -> {"model", "messages", "temperature", "max_tokens"}
    [] OTHER -> {}

\* what get_response does to the caller's messages before it sends them
MutatedMessages(adapter, messages) ==
  CASE adapter = "gemini" -> GeminiMessages(messages)
    [] adapter = "gemma" -> process_gemma_messages(messages).messages
    [] adapter = "claude" -> ClaudeMessages(messages)
    [] OTHER -> messages

\* the messages of the request body
SentMessages(adapter, messages) ==
  CASE adapter = "gemini" -> GeminiMessages(messages)
    [] adapter = "gemma" -> process_gemma_messages(messages).final_messages
    [] adapter = "claude" -> ClaudeMessages(messages)
    [] OTHER -> messages

\* str.strip
RECURSIVE Strip(_)
Strip(s) ==
  IF s # <<>> /\ Head(s) \in {" ", "\n"} THEN Strip(Tail(s))
  ELSE IF s # <<>> /\ s[Len(s)] \in {" ", "\n"} THEN Strip(SubSeq(s, 1, Len(s) - 1))
  ELSE s

(* The text an endpoint generates for a request. No two requests are answered
   alike: the text names the request and carries a serial, the call and the
   place of the request in the dispatched list. *)
ReplyText(request, reply) ==
  <<"re:">> \o request \o <<ToString(reply[1]), ToString(reply[2])>>

\* the completion tokens the endpoint reports for a reply
CompletionTokens(reply) == reply[2]

\* what get_response returns for a request the endpoint answered
Response(adapter, request, reply) ==
  LET text == ReplyText(jsonify_prompt(request), reply)
  IN CASE adapter = "openai" ->
            [choices |-> <<[message |-> [content |-> [str |-> text]]]>>,
             usage |-> [prompt_tokens |-> Len(request),
                        completion_tokens |-> CompletionTokens(reply)]]
       [] adapter = "claude" -> [content |-> <<[text |-> [str |-> text]]>>]
       [] adapter = "gemma" -> [str |-> Strip(<<" ">> \o text \o <<"\n">>)]
       [] OTHER -> [str |-> text]

\* ------------------------------------------------------------ cache contents

IsStr(v) == DOMAIN v = {"str"}

\* `"choices" in v` for a cached value: a key of a dict, a substring of a str
HasChoices(v) ==
  IF IsStr(v) THEN Contains(v.str, <<"choices">>) ELSE "choices" \in DOMAIN v

\* the test without its elif: an entry that lacks `choices` counts as a hit
IsMissKeyOnly(name, cache_, prompt) ==
  jsonify_prompt(prompt) \notin DOMAIN cache_

\* the test of the first loop of cached_generate: the prompt is dispatched
IsMiss(name, cache_, prompt) ==
  LET jsonified_prompt == jsonify_prompt(prompt)
  IN \/ jsonified_prompt \notin DOMAIN cache_
     \/ /\ jsonified_prompt \in DOMAIN cache_
        /\ name \in DOMAIN GPT_COSTS
        /\ ~HasChoices(cache_[jsonified_prompt])

RECURSIVE MissIndices(_, _, _, _)
\* new_batch_prompts, as the indices of the prompts it refers to
MissIndices(name, cache_, prompts, i) ==
  IF i > Len(prompts) THEN <<>>
  ELSE (IF IsMiss(name, cache_, prompts[i]) THEN <<i>> ELSE <<>>)
       \o MissIndices(name, cache_, prompts, i + 1)

(* One iteration of the second loop of cached_generate: the text and the cost
   of a prompt, or the error the subscripts raise. *)
Extract(name, cache_, prompt) ==
  LET k == jsonify_prompt(prompt)
      v == cache_[k]
      fail(e) == [error |-> e, text |-> [str |-> <<>>], cost |-> 0]
  IN IF k \notin DOMAIN cache_ THEN fail("KeyError")
     ELSE IF name \in DOMAIN GPT_COSTS
     THEN IF IsStr(v) THEN fail("TypeError")
          ELSE IF "choices" \notin DOMAIN v \/ "usage" \notin DOMAIN v
          THEN fail("KeyError")
          ELSE [error |-> "",
                text |-> v.choices[1].message.content,
                cost |-> v.usage[TokenTypes[1]] * GPT_COSTS[name][TokenTypes[1]]
                         + v.usage[TokenTypes[2]] * GPT_COSTS[name][TokenTypes[2]]]
     ELSE IF name \in CLAUDE_MODELS
     THEN IF IsStr(v) THEN fail("TypeError")
          ELSE IF "content" \notin DOMAIN v THEN fail("KeyError")
          ELSE [error |-> "", text |-> v.content[1].text, cost |-> 0]
     ELSE [error |-> "", text |-> v, cost |-> 0]

RECURSIVE ExtractAllLastCost(_, _, _, _, _)
\* a second loop whose cost is assigned, not added
ExtractAllLastCost(name, cache_, prompts, i, acc) ==
  IF i > Len(prompts) THEN acc
  ELSE LET e == Extract(name, cache_, prompts[i])
       IN IF e.error # "" THEN [acc EXCEPT !.error = e.error]
          ELSE ExtractAllLastCost(name, cache_, prompts, i + 1,
                                  [error |-> "",
                                   texts |-> Append(acc.texts, e.text),
                                   cost |-> e.cost])

RECURSIVE ExtractAll(_, _, _, _, _)
\* the second loop of cached_generate from prompt i on
ExtractAll(name, cache_, prompts, i, acc) ==
  IF i > Len(prompts) THEN acc
  ELSE LET e == Extract(name, cache_, prompts[i])
       IN IF e.error # "" THEN [acc EXCEPT !.error = e.error]
          ELSE ExtractAll(name, cache_, prompts, i + 1,
                          [error |-> "",
                           texts |-> Append(acc.texts, e.text),
                           cost |-> acc.cost + e.cost])

\* ------------------------------------------------------------------ state

VARIABLES
  cache,               \* the caller's in-memory cache dict
  cache_file,          \* the lines of the Cache File
  appended,            \* the (key, value) pairs cached_generate has appended
  pc,                  \* where the current cached_generate call stands
  model_name,          \* arguments of the current call
  model_url,
  use_cache,           \* FALSE: the caller passes cache = None
  parallel_model_calls,
  orig_prompts,        \* the batch as the caller supplied it
  batch_prompts,       \* the caller's prompt objects, as they are now
  new_batch_prompts,   \* indices into batch_prompts
  args,                \* the parameters of model_call_wrapper, as bound
  fault,               \* per prompt of the batch, how its endpoint behaves
  attempt,             \* the attempt of model_call_wrapper under way
  st,                  \* per dispatched prompt, its request's status
  resp,                \* per dispatched prompt, what get_response returned
  finished,            \* the dispatched prompts in the order they finished
  map_raised,          \* executor.map's iterator has raised
  exhausted,           \* the prompts a request function gave up on, in this call
  batch_responses,     \* what model_call_wrapper returned
  served,              \* per response of batch_responses, whose request it answers
  zip_i,               \* the pairs of the persist loop already stored
  result,              \* what cached_generate returned
  error,               \* the exception that ended the call
  sent,                \* per prompt of the batch, the requests made for it
  last_request,        \* per prompt of the batch, the messages last sent for it
  calls,               \* cached_generate calls made so far
  outage,              \* an endpoint may be down for the whole of a call
  at_call,             \* the cache and the file as the current call found them
  generation_config,   \* the keys of the generation config the wrapper is given
  gemma_messages,      \* the argument of a process_gemma_messages call on its own
  gemma_final,         \* what that call returned, <<>> before it has
  prev                 \* the call before this one, when it returned texts

vars ==
  <<cache, cache_file, appended, pc, model_name, model_url, use_cache,
    parallel_model_calls, orig_prompts, batch_prompts, new_batch_prompts, args,
    fault, attempt, st, resp, finished, map_raised, exhausted, batch_responses,
    served,
    zip_i, result, error, sent, last_request, calls, outage, prev,
    at_call, generation_config, gemma_messages, gemma_final>>

callVars ==
  <<model_name, model_url, use_cache, parallel_model_calls, orig_prompts,
    new_batch_prompts, args, fault, calls, outage, prev, at_call,
    generation_config, gemma_messages, gemma_final>>

storeVars == <<cache, cache_file, appended>>

\* a Python value with its type: None, a str, a list, a tuple
None == [type |-> "none", val |-> <<>>]

PyStr(v) == [type |-> "str", val |-> v]

PyTuple(v) == [type |-> "tuple", val |-> v]

PyList(v) == [type |-> "list", val |-> v]

NoPrev == [valid |-> FALSE]

\* the result slot of a request that has not returned
NoResponse == [pending |-> TRUE]

(* The state after construction: no call made yet. The caller either holds a
   cache and its file, here both new, or passes cache = None in every call. *)
Start(may_be_down) ==
  /\ outage = may_be_down
  /\ at_call = [cache |-> EmptyDict, cache_file |-> <<>>]
  /\ generation_config = {}
  /\ use_cache \in BOOLEAN
  /\ cache = EmptyDict
  /\ cache_file = <<>>
  /\ appended = <<>>
  /\ pc = "idle"
  /\ model_name = <<>>
  /\ model_url = <<>>
  /\ parallel_model_calls = FALSE
  /\ orig_prompts = <<>>
  /\ batch_prompts = <<>>
  /\ new_batch_prompts = <<>>
  /\ args = [model_name |-> PyStr(<<>>), model_url |-> PyStr(<<>>),
             batch_messages |-> PyList(<<>>)]
  /\ fault = <<>>
  /\ attempt = 0
  /\ st = <<>>
  /\ resp = <<>>
  /\ finished = <<>>
  /\ map_raised = FALSE
  /\ exhausted = {}
  /\ batch_responses = None
  /\ served = <<>>
  /\ zip_i = 0
  /\ result = None
  /\ error = ""
  /\ sent = <<>>
  /\ last_request = <<>>
  /\ calls = 0
  /\ prev = NoPrev

Init == Start(FALSE) /\ gemma_messages = <<>> /\ gemma_final = <<>>

\* ------------------------------------------------------- cached_generate

\* the call before, as the next call with the cache remembers it
Returned ==
  IF pc = "done" /\ use_cache
  THEN [valid |-> TRUE, model_name |-> model_name, use_cache |-> use_cache,
        orig_prompts |-> orig_prompts, result |-> result]
  ELSE NoPrev

\* lines 308-313: the o1 rewrite of the caller's prompts
AfterO1(name, prompts) ==
  IF StartsWith(name, O1)
  THEN [i \in 1..Len(prompts) |-> RewriteSystemTurns(prompts[i])]
  ELSE prompts

\* the caller is free to call cached_generate
CanCall == pc \in {"idle", "done", "raised"} /\ calls < MaxCalls

(* The endpoint behaviours a call may meet. Where an endpoint may be down for
   good, the calls of a behaviour all name one model. *)
FaultChoices == IF outage THEN {NoFault} \cup Down ELSE Transient

ModelChoices == IF outage /\ calls > 0 THEN {model_name} ELSE ModelNames

\* the state a call starts from, common to both ways of calling
BeginCall(name, url, prompts, parallel, faults, misses) ==
  /\ calls' = calls + 1
  /\ outage' = outage
  /\ at_call' = [cache |-> cache, cache_file |-> cache_file]
  /\ generation_config' = IF StartsWith(name, O1) THEN {} ELSE GenerationConfig
  /\ UNCHANGED <<gemma_messages, gemma_final>>
  /\ use_cache' = use_cache
  /\ exhausted' = {}
  /\ prev' = Returned
  /\ model_name' = name
  /\ model_url' = url
  /\ parallel_model_calls' = parallel
  /\ orig_prompts' = prompts
  /\ batch_prompts' = AfterO1(name, prompts)
  /\ new_batch_prompts' = misses
  /\ fault' = faults
  /\ attempt' = 0
  /\ st' = <<>>
  /\ resp' = <<>>
  /\ finished' = <<>>
  /\ map_raised' = FALSE
  /\ batch_responses' = None
  /\ served' = <<>>
  /\ zip_i' = 0
  /\ result' = None
  /\ error' = ""
  /\ sent' = [i \in 1..Len(prompts) |-> 0]
  /\ last_request' = [i \in 1..Len(prompts) |-> <<>>]
  /\ pc' = "wrapper"
  /\ UNCHANGED storeVars

(* cached_generate with a cache, lines 308-336 up to the call of
   model_call_wrapper: the o1 rewrite and the first loop. *)
CallWithCache ==
  /\ CanCall
  /\ use_cache
  /\ \E name \in ModelChoices, prompts \in Batches, parallel \in BOOLEAN :
    LET misses == MissIndices(name, cache, AfterO1(name, prompts), 1)
        dispatched == IF Adapter(name) = "none" THEN {}
                      ELSE {misses[j] : j \in 1..Len(misses)}
    IN \E faults \in [1..Len(prompts) -> FaultChoices] :
         /\ \A i \in 1..Len(prompts) : i \notin dispatched => faults[i] = NoFault
         /\ Cardinality({i \in 1..Len(prompts) : faults[i] # NoFault}) <= MaxFaulty
         /\ BeginCall(name, <<"http://host/v1">>, prompts, parallel, faults, misses)
         /\ args' = [model_name |-> PyStr(name),
                     model_url |-> PyStr(<<"http://host/v1">>),
                     batch_messages |-> PyList(misses)]

(* cached_generate with cache = None, lines 308-321: model_call_wrapper is
   called with (batch_prompts, model_name, model_url) as its first three
   positional arguments, which bind to model_name, model_url, batch_messages. *)
CallWithoutCache ==
  /\ CanCall
  /\ ~use_cache
  /\ \E name \in ModelChoices, url \in ModelUrls, prompts \in Batches,
        parallel \in BOOLEAN :
    /\ BeginCall(name, url, prompts, parallel,
                 [i \in 1..Len(prompts) |-> NoFault], <<>>)
    /\ args' = [model_name |-> PyList([i \in 1..Len(prompts) |-> i]),
                model_url |-> PyStr(name),
                batch_messages |-> PyStr(url)]

\* ------------------------------------------------------ model_call_wrapper

dispatchVars == <<st, resp, finished, map_raised, exhausted, sent, last_request>>

\* one attempt of model_call_wrapper begins: lines 209-210, `if not batch_messages`
WrapperReturnsEmpty ==
  /\ pc = "wrapper"
  /\ args.batch_messages.val = <<>>
  /\ attempt' = attempt + 1
  /\ batch_responses' = PyList(<<>>)
  /\ served' = <<>>
  /\ pc' = "returned"
  /\ UNCHANGED <<callVars, storeVars, dispatchVars, batch_prompts, zip_i, result,
                 error>>

\* line 225, `model_name in GPT_COSTS` with a list as model_name: TypeError
WrapperTypeError ==
  /\ pc = "wrapper"
  /\ args.batch_messages.val # <<>>
  /\ args.model_name.type = "list"
  /\ attempt' = attempt + 1
  /\ pc' = "failed"
  /\ UNCHANGED <<callVars, storeVars, dispatchVars, batch_prompts,
                 batch_responses, served, zip_i, result, error>>

\* lines 225-282 with no branch taken: the function ends and returns None
WrapperReturnsNone ==
  /\ pc = "wrapper"
  /\ args.batch_messages.val # <<>>
  /\ args.model_name.type = "str"
  /\ Adapter(args.model_name.val) = "none"
  /\ attempt' = attempt + 1
  /\ batch_responses' = None
  /\ pc' = "returned"
  /\ UNCHANGED <<callVars, storeVars, dispatchVars, batch_prompts, served, zip_i,
                 result, error>>

\* an adapter is selected and get_batch_responses begins
WrapperDispatch ==
  /\ pc = "wrapper"
  /\ args.batch_messages.val # <<>>
  /\ args.model_name.type = "str"
  /\ args.batch_messages.type = "list"
  /\ Adapter(args.model_name.val) # "none"
  /\ attempt' = attempt + 1
  /\ st' = [j \in 1..Len(args.batch_messages.val) |-> "pending"]
  /\ resp' = [j \in 1..Len(args.batch_messages.val) |-> NoResponse]
  /\ finished' = <<>>
  /\ map_raised' = FALSE
  /\ pc' = "dispatch"
  /\ UNCHANGED <<callVars, storeVars, batch_prompts, exhausted, batch_responses,
                 served, zip_i, result, error, sent, last_request>>

\* a test of line 212 that looks at the size of the batch only
PooledWhenSeveral == Len(args.batch_messages.val) > 1

\* line 212: the else branch, the thread pool, is taken
Pooled == parallel_model_calls /\ Len(args.batch_messages.val) > 1

(* get_response(messages) begins for the j-th dispatched prompt: it prepares
   the messages, in place where the adapter does so, and sends the request. In
   the loop of line 214 a request begins when the one before has returned; in
   the pool every request has a worker of its own. *)
StartRequest(j) ==
  /\ pc = "dispatch"
  /\ st[j] = "pending"
  /\ Pooled \/ (\A h \in 1..Len(st) : IF h < j THEN st[h] = "done"
                                      ELSE st[h] = "pending")
  /\ LET i == args.batch_messages.val[j]
         adapter == Adapter(args.model_name.val)
     IN /\ last_request' =
             [last_request EXCEPT
                ![i] = SentMessages(adapter, batch_prompts[i])]
        /\ batch_prompts' =
             [batch_prompts EXCEPT ![i] = MutatedMessages(adapter, batch_prompts[i])]
  /\ st' = [st EXCEPT ![j] = "running"]
  /\ UNCHANGED <<callVars, storeVars, attempt, resp, finished, map_raised,
                 exhausted, batch_responses, served, zip_i, result, error, sent,
                 pc>>

(* get_response ends for the j-th dispatched prompt: the request function has
   made its attempts, and returned a response or raised. In the loop of line
   214 the exception leaves model_call_wrapper at once; in the pool it is kept
   in the request's future. *)
FinishRequest(j) ==
  /\ pc = "dispatch"
  /\ st[j] = "running"
  /\ LET i == args.batch_messages.val[j]
         adapter == Adapter(args.model_name.val)
         r == RetryRequest(fault[i], sent[i], 1, RequestAttempts(adapter))
     IN /\ sent' = [sent EXCEPT ![i] = sent[i] + r.tries]
        /\ exhausted' = IF r.ok THEN exhausted ELSE exhausted \cup {i}
        /\ IF r.ok
           THEN /\ resp' = [resp EXCEPT ![j] =
                              Response(adapter, last_request[i], <<calls, j>>)]
                /\ st' = [st EXCEPT ![j] = "done"]
                /\ finished' = Append(finished, j)
                /\ pc' = pc
           ELSE IF Pooled
           THEN /\ st' = [st EXCEPT ![j] = "failed"]
                /\ finished' = Append(finished, j)
                /\ resp' = resp
                /\ pc' = pc
           ELSE \* the frame of model_call_wrapper is left, its locals with it
                /\ st' = <<>>
                /\ finished' = <<>>
                /\ resp' = <<>>
                /\ pc' = "failed"
  /\ UNCHANGED <<callVars, storeVars, attempt, batch_prompts, map_raised,
                 batch_responses, served, zip_i, result, error, last_request>>

\* the results as futures.as_completed would yield them
MapResultsAsCompleted(resp_, finished_) ==
  [n \in 1..Len(finished_) |-> [value |-> resp_[finished_[n]], of |-> finished_[n]]]

\* list(responses) of executor.map: the results in the order of the inputs
MapResults(resp_, finished_) ==
  [j \in 1..Len(resp_) |-> [value |-> resp_[j], of |-> j]]

\* a loop that loses the response it got last
LoopResultsButLast(resp_, finished_) ==
  [n \in 1..(Len(finished_) - 1) |->
     [value |-> resp_[finished_[n]], of |-> finished_[n]]]

\* the list the loop of lines 213-216 builds
LoopResults(resp_, finished_) ==
  [n \in 1..Len(finished_) |-> [value |-> resp_[finished_[n]], of |-> finished_[n]]]

\* a collection of results that takes a request that raised for one that returned
AllSettled(st_) == \A j \in 1..Len(st_) : st_[j] \in {"done", "failed"}

\* a collection of results that does not wait for the requests still running
NoneFailedOrPending(st_) == \A j \in 1..Len(st_) : st_[j] \in {"done", "running"}

(* every get_response call returned: an exception would have left the loop of
   line 214, or been raised again by list(responses) *)
AllReturned(st_) == \A j \in 1..Len(st_) : st_[j] = "done"

\* get_batch_responses returns, and with it model_call_wrapper
GetBatchReturn ==
  /\ pc = "dispatch"
  /\ AllReturned(st)
  /\ LET rs == IF Pooled THEN MapResults(resp, finished)
               ELSE LoopResults(resp, finished)
     IN /\ batch_responses' = PyList([n \in 1..Len(rs) |-> rs[n].value])
        /\ served' = [n \in 1..Len(rs) |-> rs[n].of]
  /\ pc' = "returned"
  /\ UNCHANGED <<callVars, storeVars, dispatchVars, attempt, batch_prompts, zip_i,
                 result, error>>

(* The pool: the iterator of executor.map reaches, in input order, a request
   that raised. It raises in turn, and cancels the requests not yet begun. *)
MapRaise ==
  /\ pc = "dispatch"
  /\ Pooled
  /\ ~map_raised
  /\ \E j \in 1..Len(st) :
       /\ st[j] = "failed"
       /\ \A h \in 1..(j - 1) : st[h] = "done"
  /\ map_raised' = TRUE
  /\ st' = [j \in 1..Len(st) |-> IF st[j] = "pending" THEN "cancelled" ELSE st[j]]
  /\ UNCHANGED <<callVars, storeVars, attempt, batch_prompts, resp, finished,
                 exhausted, batch_responses, served, zip_i, result, error, sent,
                 last_request, pc>>

\* the with block ends: it waits for the running requests, the exception goes on
ExecutorExit ==
  /\ pc = "dispatch"
  /\ map_raised
  /\ \A j \in 1..Len(st) : st[j] # "running"
  /\ pc' = "failed"
  /\ st' = <<>>
  /\ resp' = <<>>
  /\ finished' = <<>>
  /\ map_raised' = FALSE
  /\ UNCHANGED <<callVars, storeVars, attempt, batch_prompts, exhausted,
                 batch_responses, served, zip_i, result, error, sent,
                 last_request>>

\* @retry on model_call_wrapper: after wait_fixed(20) the function is called again
WrapperRetry ==
  /\ pc = "failed"
  /\ attempt < WRAPPER_ATTEMPTS
  /\ pc' = "wrapper"
  /\ UNCHANGED <<callVars, storeVars, dispatchVars, attempt, batch_prompts,
                 batch_responses, served, zip_i, result, error>>

\* @retry on model_call_wrapper: stop_after_attempt, the RetryError reaches the caller
WrapperGivesUp ==
  /\ pc = "failed"
  /\ attempt >= WRAPPER_ATTEMPTS
  /\ pc' = "raised"
  /\ error' = "RetryError"
  /\ UNCHANGED <<callVars, storeVars, dispatchVars, attempt, batch_prompts,
                 batch_responses, served, zip_i, result>>

\* --------------------------------------------- cached_generate, after dispatch

(* Between two calls the caller starts anew: load_cache_file rebuilds the
   in-memory cache from the file. *)
LoadCache ==
  /\ pc \in {"idle", "done", "raised"}
  /\ use_cache
  /\ cache' = load_cache_file(cache_file)
  /\ UNCHANGED <<callVars, dispatchVars, cache_file, appended, attempt,
                 batch_prompts, batch_responses, served, zip_i, result, error, pc>>

\* lines 315-321: without a cache, what model_call_wrapper returned is returned
ReturnRaw ==
  /\ pc = "returned"
  /\ ~use_cache
  /\ result' = batch_responses
  /\ pc' = "done"
  /\ UNCHANGED <<callVars, storeVars, dispatchVars, attempt, batch_prompts,
                 batch_responses, served, zip_i, error>>

\* line 337: zip over None raises TypeError
ZipRaises ==
  /\ pc = "returned"
  /\ use_cache
  /\ batch_responses = None
  /\ pc' = "raised"
  /\ error' = "TypeError"
  /\ UNCHANGED <<callVars, storeVars, dispatchVars, attempt, batch_prompts,
                 batch_responses, served, zip_i, result>>

\* the pairs zip yields
ZipLen == IF Len(new_batch_prompts) < Len(batch_responses.val)
          THEN Len(new_batch_prompts) ELSE Len(batch_responses.val)

\* the value cached_generate stores for a pair
Stored(prompt, response) == response

\* the key cached_generate stores a pair under
StoreKey(prompt) == jsonify_prompt(prompt)

\* lines 337-347, one iteration: the pair is stored and appended to the file
PersistOne ==
  /\ pc = "returned"
  /\ use_cache
  /\ batch_responses # None
  /\ zip_i < ZipLen
  /\ LET prompt == batch_prompts[new_batch_prompts[zip_i + 1]]
         jsonified_prompt == StoreKey(prompt)
         new_cache == Store(cache, jsonified_prompt,
                            Stored(prompt, batch_responses.val[zip_i + 1]))
     IN /\ cache' = new_cache
        /\ cache_file' = Append(cache_file,
                                DumpsLine(jsonified_prompt,
                                          new_cache[jsonified_prompt]))
        /\ appended' = Append(appended,
                              [key |-> jsonified_prompt,
                               value |-> new_cache[jsonified_prompt]])
  /\ zip_i' = zip_i + 1
  /\ UNCHANGED <<callVars, dispatchVars, attempt, batch_prompts, batch_responses,
                 served, result, error, pc>>

\* lines 349-366: the assertion, the second loop and the return
SecondPass ==
  /\ pc = "returned"
  /\ use_cache
  /\ batch_responses # None
  /\ zip_i = ZipLen
  /\ IF Len(batch_responses.val) # Len(new_batch_prompts)
     THEN /\ pc' = "raised"
          /\ error' = "AssertionError"
          /\ result' = result
     ELSE LET out == ExtractAll(model_name, cache, batch_prompts, 1,
                                [error |-> "", texts |-> <<>>, cost |-> 0])
          IN IF out.error # ""
             THEN /\ pc' = "raised"
                  /\ error' = out.error
                  /\ result' = result
             ELSE /\ pc' = "done"
                  /\ error' = error
                  /\ result' = PyTuple([texts |-> out.texts, cost |-> out.cost])
  /\ UNCHANGED <<callVars, storeVars, dispatchVars, attempt, batch_prompts,
                 batch_responses, served, zip_i>>

\* ------------------------------------------------------------ specification

Next ==
  \/ CallWithCache
  \/ CallWithoutCache
  \/ WrapperReturnsEmpty
  \/ WrapperTypeError
  \/ WrapperReturnsNone
  \/ WrapperDispatch
  \/ \E j \in 1..MaxBatch : j <= Len(st) /\ StartRequest(j)
  \/ \E j \in 1..MaxBatch : j <= Len(st) /\ FinishRequest(j)
  \/ GetBatchReturn
  \/ MapRaise
  \/ ExecutorExit
  \/ WrapperRetry
  \/ WrapperGivesUp
  \/ ReturnRaw
  \/ ZipRaises
  \/ PersistOne
  \/ SecondPass
  \/ LoadCache

Spec == Init /\ [][Next]_vars

\* the same program, where an endpoint may be down for the whole of a call
InitOutage == Start(TRUE) /\ gemma_messages = <<>> /\ gemma_final = <<>>

SpecOutage == InitOutage /\ [][Next]_vars

\* -------------------------------------- process_gemma_messages, on its own

\* the roles and the contents of the turns
Roles == {"system", "user", "assistant"}

Contents == {"a", "b"}

Turns == {Message(Str(r), <<c>>) : r \in Roles, c \in Contents}

\* the non-empty lists of turns
TurnLists == UNION {[1..n -> Turns] : n \in 1..MaxTurns}

\* no cached_generate call is made; a list of turns is about to be processed
InitGemma ==
  /\ Start(FALSE)
  /\ use_cache
  /\ gemma_messages \in TurnLists
  /\ gemma_final = <<>>

\* line 252: final_messages = process_gemma_messages(messages)
ProcessGemma ==
  /\ gemma_final = <<>>
  /\ gemma_messages # <<>>
  /\ LET r == process_gemma_messages(gemma_messages)
     IN /\ gemma_final' = r.final_messages
        /\ gemma_messages' = r.messages
  /\ UNCHANGED <<cache, cache_file, appended, pc, model_name, model_url,
                 use_cache, parallel_model_calls, orig_prompts, batch_prompts,
                 new_batch_prompts, args, fault, attempt, st, resp, finished,
                 map_raised, exhausted, batch_responses, served, zip_i, result,
                 error, sent, last_request, calls, outage, prev,
                 at_call, generation_config>>

NextGemma == ProcessGemma

SpecGemma == InitGemma /\ [][NextGemma]_vars


\* ===================================================================== claims

RECURSIVE SumSeq(_)
SumSeq(q) == IF q = <<>> THEN 0 ELSE Head(q) + SumSeq(Tail(q))

\* the network requests of the current call
NetCalls == SumSeq(sent)

\* the prompts of the batch that were handed to the dispatcher
Dispatched == {new_batch_prompts[n] : n \in 1..Len(new_batch_prompts)}

\* the current call has ended
Ended == pc \in {"done", "raised"}

(* C1. Idempotence: a cached_generate call that returns, made with the model
   and the batch content of the call before it, which returned too, makes no
   network request and returns the texts and the cost of that call. *)
C1_Idempotence ==
  (/\ pc = "done"
   /\ use_cache
   /\ prev.valid
   /\ prev.model_name = model_name
   /\ prev.orig_prompts = orig_prompts)
  => (NetCalls = 0 /\ result = prev.result)

(* C2. Miss/hit partition. Until the first pair is stored the cache is the one
   the first loop read: a prompt is in new_batch_prompts iff its key is absent,
   or the model is cost-tracked and the cached value lacks `choices`;
   new_batch_prompts keeps the input order; and at no time has a request been
   made for a prompt that was not dispatched. *)
C2_MissHitPartition ==
  (use_cache /\ pc # "idle") =>
    LET seen == AfterO1(model_name, orig_prompts)
        key(i) == jsonify_prompt(seen[i])
    IN /\ \A i \in 1..Len(seen) : i \notin Dispatched => sent[i] = 0
       /\ \A n \in 1..Len(new_batch_prompts) - 1 :
            new_batch_prompts[n] < new_batch_prompts[n + 1]
       /\ Dispatched \subseteq 1..Len(seen)
       /\ (zip_i = 0) =>
            \A i \in 1..Len(seen) :
              i \in Dispatched <=>
                \/ key(i) \notin DOMAIN cache
                \/ /\ key(i) \in DOMAIN cache
                   /\ model_name \in {GPT_4O, O1_PREVIEW, O1}
                   /\ ~HasChoices(cache[key(i)])

\* C2's case: a batch of two, one a complete hit, the other dispatched and answered
C2_Witness ==
  /\ use_cache
  /\ pc = "done"
  /\ Len(orig_prompts) = 2
  /\ Len(new_batch_prompts) = 1
  /\ NetCalls = 1

\* the text of a returned value: of a str, or of a provider response
TextOf(v) ==
  IF IsStr(v) THEN v.str
  ELSE IF "choices" \in DOMAIN v THEN v.choices[1].message.content.str
  ELSE v.content[1].text.str

(* C3. Order preservation in the pool. What model_call_wrapper returns holds,
   at place n, the answer to the request made for the n-th dispatched prompt;
   and each text cached_generate returns for a dispatched prompt answers a
   request made for a prompt of that prompt's key. *)
C3_OrderPreserved ==
  /\ (pc \in {"returned", "done"} /\ use_cache /\ Pooled
      /\ batch_responses.type = "list")
     => \A n \in 1..Len(new_batch_prompts) :
          /\ Len(batch_responses.val) = Len(new_batch_prompts)
          /\ served[n] = n
          /\ TextOf(batch_responses.val[n])
             = ReplyText(jsonify_prompt(last_request[new_batch_prompts[n]]),
                         <<calls, n>>)
  /\ (pc = "done" /\ use_cache /\ Pooled)
     => \A n \in 1..Len(new_batch_prompts) :
          \E m \in 1..Len(new_batch_prompts) :
            /\ jsonify_prompt(batch_prompts[new_batch_prompts[m]])
               = jsonify_prompt(batch_prompts[new_batch_prompts[n]])
            /\ TextOf(result.val.texts[new_batch_prompts[n]])
               = ReplyText(jsonify_prompt(last_request[new_batch_prompts[m]]),
                           <<calls, m>>)

\* C3's case: a pool of two whose second request finished first, and the call returned
C3_Witness ==
  /\ pc = "done"
  /\ use_cache
  /\ Pooled
  /\ finished = <<2, 1>>
  /\ batch_prompts[1] # batch_prompts[2]


\* the prompts of the batch whose endpoint is down for good
AlwaysFailing == {i \in Dispatched : fault[i].always}

\* the requests a prompt whose endpoint is down for good gets from one call
AttemptsInAll ==
  CASE model_name \in {GPT_4O, O1_PREVIEW, O1} -> OPENAI_ATTEMPTS * WRAPPER_ATTEMPTS
    [] model_name = CLAUDE_35 -> CLAUDE_ATTEMPTS * WRAPPER_ATTEMPTS
    [] OTHER -> WRAPPER_ATTEMPTS

(* C4 as stated. Retry bound: when the RetryError reaches the caller of
   cached_generate, a prompt whose network call always fails has been requested
   exactly 10 times. *)
C4_ExactlyTenAttempts ==
  (use_cache /\ pc = "raised" /\ error = "RetryError")
  => \A i \in AlwaysFailing : sent[i] = OPENAI_ATTEMPTS

(* C4, amended. Retry bound: a prompt whose network call always fails ends the
   call with RetryError after the 10 attempts of model_call_wrapper, and is
   never requested more than once per attempt of its request function in each
   of them; when no other request of the batch fails it has by then been
   requested exactly that often: 10 * 10 times through openai_request or
   claude_request, 10 times through the Gemini and Gemma adapters, which have
   no retry of their own. *)
C4_RetryBound ==
  use_cache =>
    \A i \in AlwaysFailing :
      /\ sent[i] <= AttemptsInAll
      /\ Ended => /\ pc = "raised"
                  /\ error = "RetryError"
                  /\ attempt = WRAPPER_ATTEMPTS
      /\ (Ended /\ \A h \in Dispatched \ {i} : fault[h] = NoFault)
         => sent[i] = AttemptsInAll

\* C4's case: the RetryError has surfaced after 100 requests through openai_request
C4_Witness ==
  /\ use_cache
  /\ pc = "raised"
  /\ error = "RetryError"
  /\ model_name = GPT_4O
  /\ \E i \in AlwaysFailing : sent[i] = 100

\* the last record appended under the key of the n-th record
LastAppended(n) ==
  CHOOSE m \in n..Len(appended) :
    /\ appended[m].key = appended[n].key
    /\ \A h \in (m + 1)..Len(appended) : appended[h].key # appended[n].key

(* C5. Cache file round-trip: load_cache_file on the file holds exactly the
   keys cached_generate has appended, each with the completion of the last
   record appended under it. *)
C5_FileRoundTrip ==
  LET loaded == load_cache_file(cache_file)
  IN /\ Len(cache_file) = Len(appended)
     /\ DOMAIN loaded = {appended[n].key : n \in 1..Len(appended)}
     /\ \A n \in 1..Len(appended) :
          loaded[appended[n].key] = appended[LastAppended(n)].value

\* C5's case: two records appended under one key, with different completions
C5_Witness ==
  /\ pc = "done"
  /\ \E n, m \in 1..Len(appended) :
       /\ n < m
       /\ appended[n].key = appended[m].key
       /\ appended[n].value # appended[m].value

(* C6. No-cache path: a call with cache = None for a model that has an adapter
   ends by returning a list with one raw result per prompt of the batch, each
   obtained by a request, and leaves the cache file alone. *)
C6_NoCachePath ==
  (~use_cache /\ Ended /\ model_name \in {GPT_4O, O1, GEMINI_PRO, GEMMA_2, CLAUDE_35})
  => /\ pc = "done"
     /\ result.type = "list"
     /\ Len(result.val) = Len(orig_prompts)
     /\ \A i \in 1..Len(orig_prompts) : sent[i] >= 1
     /\ cache_file = <<>>

\* a request function that has a retry of its own gave up on a prompt
GaveUp ==
  /\ exhausted # {}
  /\ model_name \in {GPT_4O, O1_PREVIEW, O1, CLAUDE_35}

(* C7 as stated. Failure propagation: once a request of the batch has
   exhausted its retries, cached_generate returns no result. *)
C7_AnyExhaustionSurfaces ==
  (use_cache /\ GaveUp) => pc # "done"

(* C7, amended. Failure propagation: model_call_wrapper returns a list only
   from an attempt in which every request returned, never a list with the place
   of a failed request left empty; a failure in one attempt makes the wrapper
   run the batch again, and when a request fails in every one of the 10
   attempts, which it does when its endpoint is down for good, cached_generate
   returns no result and RetryError reaches its caller. *)
C7_FailurePropagates ==
  use_cache =>
    /\ (pc \in {"returned", "done"} /\ batch_responses.type = "list")
       => \A n \in 1..Len(batch_responses.val) : batch_responses.val[n] # NoResponse
    /\ (pc = "raised" /\ error = "RetryError")
       => (result = None /\ attempt = WRAPPER_ATTEMPTS /\ exhausted # {})
    /\ (AlwaysFailing # {}) => (pc # "done" /\ result = None)
    /\ (AlwaysFailing # {} /\ Ended) => (pc = "raised" /\ error = "RetryError")

\* C7's case: in the pool one request of two kept failing, and the error surfaced
C7_Witness ==
  /\ use_cache
  /\ Pooled
  /\ pc = "raised"
  /\ error = "RetryError"
  /\ AlwaysFailing # {}
  /\ \E i \in Dispatched : ~fault[i].always /\ sent[i] >= 1

\* the model names that match no branch of model_call_wrapper
UnknownModel == model_name \in {O1_MINI, LLAMA_3}

(* C8 as stated. Unknown model name with a cache miss: the call completes
   without an error. *)
C8_CompletesSilently ==
  (use_cache /\ UnknownModel /\ new_batch_prompts # <<>> /\ Ended)
  => (pc = "done" /\ error = "")

(* C8, amended. Unknown model name with a cache miss: no adapter runs and no
   request is made; model_call_wrapper returns None from its first attempt
   without raising; cached_generate then raises TypeError at the zip of line
   337, before it stores or appends anything, and returns nothing. *)
C8_UnknownModel ==
  (use_cache /\ UnknownModel /\ new_batch_prompts # <<>>) =>
    /\ NetCalls = 0
    /\ st = <<>>
    /\ zip_i = 0
    /\ result = None
    /\ pc \in {"wrapper", "returned", "raised"}
    /\ (pc = "returned") => (batch_responses = None /\ attempt = 1)
    /\ (pc = "raised") => (error = "TypeError" /\ attempt = 1)

\* C8's case: the call for an unknown model has ended
C8_Witness ==
  /\ use_cache
  /\ UnknownModel
  /\ new_batch_prompts # <<>>
  /\ pc = "raised"
  /\ error = "TypeError"

\* a cached value with the full shape of a provider response
Complete(v) == ~IsStr(v) /\ "choices" \in DOMAIN v /\ "usage" \in DOMAIN v

(* C9. Complete entries are write-once: no step changes the in-memory value of
   a key whose entry is complete, or appends a record for that key. *)
C9_WriteOnce ==
  [][\A k \in DOMAIN cache :
       Complete(cache[k]) =>
         /\ k \in DOMAIN cache'
         /\ cache'[k] = cache[k]
         /\ ~(/\ Len(appended') > Len(appended)
              /\ appended'[Len(appended')].key = k)]_vars

RECURSIVE CostFrom(_)
\* the usage-times-price sum over the prompts of the batch from the i-th on
CostFrom(i) ==
  IF i > Len(batch_prompts) THEN 0
  ELSE LET v == cache[jsonify_prompt(batch_prompts[i])]
           price == GPT_COSTS[model_name]
       IN v.usage.prompt_tokens * price.prompt_tokens
          + v.usage.completion_tokens * price.completion_tokens
          + CostFrom(i + 1)

(* C10. Cost computation: the cost cached_generate returns for a cost-tracked
   model is the sum, over every prompt of the batch, hit or miss, of
   usage * price over prompt_tokens and completion_tokens of the cached
   response; for any other model it is 0. *)
C10_Cost ==
  (use_cache /\ pc = "done") =>
    /\ result.type = "tuple"
    /\ Len(result.val.texts) = Len(orig_prompts)
    /\ result.val.cost = IF model_name \in {GPT_4O, O1_PREVIEW, O1}
                         THEN CostFrom(1) ELSE 0

\* C10's case: a cost-tracked model, a batch of a hit and a miss, a cost of two terms
C10_Witness ==
  /\ use_cache
  /\ pc = "done"
  /\ model_name = GPT_4O
  /\ Len(orig_prompts) = 2
  /\ Len(new_batch_prompts) = 1
  /\ result.val.cost
     > LET v == cache[jsonify_prompt(batch_prompts[1])]
       IN v.usage.prompt_tokens * 5 + v.usage.completion_tokens * 15


\* the role a turn counts as: system counts as user
RoleOf(turn) ==
  IF Get(turn, "role") = Str("system") THEN Str("user") ELSE Get(turn, "role")

RECURSIVE MergeRuns(_, _)
(* The turns of `turns`, a list as the caller passed it, with every run of
   turns of one role made one turn: its contents in order, "\n\n" between. *)
MergeRuns(turns, merged) ==
  IF turns = <<>> THEN merged
  ELSE LET t == Head(turns)
           n == Len(merged)
       IN IF n > 0 /\ Get(merged[n], "role") = RoleOf(t)
          THEN MergeRuns(Tail(turns),
                 [merged EXCEPT ![n] =
                    Message(RoleOf(t),
                            Get(merged[n], "content") \o <<"\n\n">>
                            \o Get(t, "content"))])
          ELSE MergeRuns(Tail(turns),
                         Append(merged, Message(RoleOf(t), Get(t, "content"))))

\* the list the claim describes for a list of turns
Normalized(turns) ==
  LET runs == MergeRuns(turns, <<>>)
  IN IF Get(runs[1], "role") = Str("assistant")
     THEN <<Message(Str("user"), <<"Hello">>)>> \o runs
     ELSE runs

(* C11. Gemma alternation normalization: what process_gemma_messages returns
   for a non-empty list of system, user and assistant turns starts with a user
   turn, holds no system turn and no two neighbours of one role, and is the
   list of the merged runs of its argument, each run's contents in order with
   "\n\n" between, after a "Hello" user turn when the argument starts with an
   assistant turn. *)
C11_GemmaAlternation ==
  [][(gemma_final' # gemma_final) =>
       /\ Get(gemma_final'[1], "role") = Str("user")
       /\ \A n \in 1..Len(gemma_final') :
            Get(gemma_final'[n], "role") \in {Str("user"), Str("assistant")}
       /\ \A n \in 1..(Len(gemma_final') - 1) :
            Get(gemma_final'[n], "role") # Get(gemma_final'[n + 1], "role")
       /\ gemma_final' = Normalized(gemma_messages)]_vars

\* C11's case: [system, system, assistant, user] became [user(merged), assistant, user]
C11_Witness ==
  /\ Len(gemma_final) = 3
  /\ Len(gemma_messages) = 4
  /\ gemma_final[1] = Message(Str("user"), <<"a", "\n\n", "b">>)
  /\ Get(gemma_final[2], "role") = Str("assistant")
  /\ Get(gemma_final[3], "role") = Str("user")
  /\ Get(gemma_messages[1], "role") = Str("system")
  /\ Get(gemma_messages[2], "role") = Str("system")


\* a prompt with a system turn
HasSystemTurn(prompt) ==
  \E t \in 1..Len(prompt) : Get(prompt[t], "role") = Str("system")

(* C12. Reasoning-model variant: in a call for a model whose name begins with
   o1 no prompt of the batch keeps a system turn and the generation config is
   empty; and the misses go through the OpenAI-compatible adapter: the request
   body has the keys model and messages only, a request is made for every miss,
   and what comes back from dispatch is a list of responses with `choices`. *)
C12_ReasoningVariant ==
  (use_cache /\ pc # "idle" /\ StartsWith(model_name, O1)) =>
    /\ \A i \in 1..Len(batch_prompts) : ~HasSystemTurn(batch_prompts[i])
    /\ generation_config = {}
    /\ (pc = "returned" /\ new_batch_prompts # <<>>) =>
         /\ DataKeys(Adapter(model_name), generation_config) = {"model", "messages"}
         /\ batch_responses.type = "list"
         /\ \A i \in Dispatched : sent[i] >= 1
         /\ \A n \in 1..Len(batch_responses.val) :
              "choices" \in DOMAIN batch_responses.val[n]


\* the assert of line 349 is the next statement of cached_generate
AtLengthCheck ==
  /\ use_cache
  /\ pc = "returned"
  /\ batch_responses.type = "list"
  /\ zip_i = ZipLen

(* C13. Response-count invariant: whenever dispatch has returned a list, and
   so whenever the check after the persist loop is reached, the list holds as
   many responses as there were miss prompts; cached_generate returns normally
   only with that equality, and the check never fails. *)
C13_ResponseCount ==
  use_cache =>
    /\ (pc \in {"returned", "done"} /\ batch_responses.type = "list")
       => Len(batch_responses.val) = Len(new_batch_prompts)
    /\ (pc = "done")
       => (batch_responses.type = "list"
           /\ Len(batch_responses.val) = Len(new_batch_prompts))
    /\ error # "AssertionError"

\* C13's case: two misses were dispatched and stored, and the check is next
C13_Witness ==
  /\ AtLengthCheck
  /\ Len(new_batch_prompts) = 2
  /\ zip_i = 2


\* the cache and the Cache File are as the current call found them
StoreUntouched ==
  /\ cache = at_call.cache
  /\ cache_file = at_call.cache_file
  /\ zip_i = 0

(* C14. Failed dispatch leaves the cache untouched: until model_call_wrapper
   has returned, and when it has given up with RetryError, the in-memory cache
   and the Cache File are as they were when the call began; a call one of
   whose misses has an endpoint that is down for good never stores or appends
   anything, whatever the other requests of the batch returned. *)
C14_FailedDispatchStoresNothing ==
  use_cache =>
    /\ (pc \in {"wrapper", "dispatch", "failed"}) => StoreUntouched
    /\ (pc = "raised" /\ error = "RetryError") => StoreUntouched
    /\ (AlwaysFailing # {}) => StoreUntouched

(* C14's case: in the loop the first request was answered in each of the ten
   attempts, the second never, and the call has ended with RetryError *)
C14_Witness ==
  /\ use_cache
  /\ ~Pooled
  /\ pc = "raised"
  /\ error = "RetryError"
  /\ new_batch_prompts = <<1, 2>>
  /\ fault[2].always
  /\ sent[1] = WRAPPER_ATTEMPTS


(* C15 as stated. Cache File appends by worker threads: under parallel
   dispatch a record is appended while get_batch_responses is under way, by a
   worker of the pool. *)
C15_AppendsByWorkers ==
  [][(Pooled /\ cache_file' # cache_file) => pc = "dispatch"]_vars

(* C15, amended. Cache File appends by the calling thread: a record is
   appended only by the loop of cached_generate that follows the return of
   model_call_wrapper, when every request of the batch has returned and none
   runs; the loop appends one record per step, in the order of the misses, the
   record of the next miss and its response. *)
C15_AppendsByCaller ==
  [][(cache_file' # cache_file) =>
       /\ pc = "returned"
       /\ pc' = "returned"
       /\ \A j \in 1..Len(st) : st[j] = "done"
       /\ zip_i' = zip_i + 1
       /\ cache_file'
          = Append(cache_file,
                   DumpsLine(jsonify_prompt(batch_prompts[new_batch_prompts[zip_i + 1]]),
                             batch_responses.val[zip_i + 1]))]_vars

(* C15's case: the pool's second request finished first, and the first record
   of the call, that of the first miss, has been appended *)
C15_Witness ==
  /\ use_cache
  /\ Pooled
  /\ pc = "returned"
  /\ finished = <<2, 1>>
  /\ zip_i = 1
  /\ Len(cache_file) = Len(at_call.cache_file) + 1


\* the requests of the batch that are in flight
InFlight == {j \in 1..Len(st) : st[j] = "running"}

(* C16. Sequential dispatch: with parallel_model_calls false, or with at most
   one miss, at most one request of the batch is in flight at any time, a
   request has begun only when every request before it in input order has
   returned, and the requests return in input order. *)
C16_SequentialDispatch ==
  (pc = "dispatch" /\ (~parallel_model_calls \/ Len(new_batch_prompts) <= 1)) =>
    /\ Cardinality(InFlight) <= 1
    /\ \A j \in 1..Len(st) :
         st[j] # "pending" => \A h \in 1..(j - 1) : st[h] = "done"
    /\ \A j \in 1..Len(st) : st[j] \in {"pending", "running", "done"}
    /\ finished = [n \in 1..Len(finished) |-> n]

\* C16's case: without the pool, the first of two requests has returned and the second runs
C16_Witness ==
  /\ use_cache
  /\ ~parallel_model_calls
  /\ pc = "dispatch"
  /\ st = <<"done", "running">>


\* the key the first loop of cached_generate computed for the i-th prompt
DetectionKey(i) == jsonify_prompt(AfterO1(model_name, orig_prompts)[i])

(* C17. Cache-key stability across dispatch: the key under which a step of the
   persist loop stores and appends the response of a miss is the key the first
   loop computed for that miss. *)
C17_KeyStable ==
  [][(Len(appended') > Len(appended)) =>
       /\ appended'[Len(appended')].key = DetectionKey(new_batch_prompts[zip_i + 1])
       /\ DetectionKey(new_batch_prompts[zip_i + 1]) \in DOMAIN cache']_vars


(* C18. No repeat of successful requests: within one call a miss whose
   endpoint answers every request, so that its first request returned a valid
   response, is requested once at most, whatever happens to the other requests
   of the batch. *)
C18_NoRepeat ==
  use_cache =>
    \A i \in 1..Len(sent) : fault[i] = NoFault => sent[i] <= 1


(* C19. In-memory cache mirrors the file: when the in-memory cache was what
   load_cache_file gives for the Cache File as the call began, it is what
   load_cache_file gives for the Cache File when the call returns normally,
   and after every step of the persist loop. *)
C19_CacheMirrorsFile ==
  (/\ use_cache
   /\ at_call.cache = load_cache_file(at_call.cache_file)
   /\ pc \in {"returned", "done"})
  => cache = load_cache_file(cache_file)

\* C19's case: a second call has added records to a file that held some, and returned
C19_Witness ==
  /\ use_cache
  /\ pc = "done"
  /\ calls = 2
  /\ at_call.cache_file # <<>>
  /\ at_call.cache = load_cache_file(at_call.cache_file)
  /\ Len(cache_file) > Len(at_call.cache_file)

====
